---- MODULE Spec2Model ----
(***************************************************************************)
(* Model of src/library/names.py: a singly linked list of names with       *)
(* add (append at the tail), remove (unlink the first match) and display.  *)
(*                                                                         *)
(* The heap is a pair of sequences indexed by node identity: name[n] is    *)
(* Node.name and next[n] is Node.next of the n-th node created by add.     *)
(* None is the Python None.  A node that remove has unlinked stays in the  *)
(* heap with the fields it had: the code never assigns to them.            *)
(***************************************************************************)
EXTENDS Integers, Sequences, FiniteSets, TLC

\* Bound on the number of Node objects add may create in one run.
MaxNodes == 4

\* The values passed as `name`: the empty string, and two others so that
\* duplicates and distinct neighbours both occur.
Names == {"", "Alice", "Bob"}

None == 0

EmptyMsg == "The list is empty."

VARIABLES
    head,     \* LinkedList.head: a node identity or None
    name,     \* name[n]: Node.name of node n
    next,     \* next[n]: Node.next of node n
    out,      \* the lines printed by the most recent call
    op,       \* the most recent call: "init", "add", "remove", "display"
    arg,      \* its argument
    ret,      \* its return value: "True", "False" or "None"
    pHead,    \* head, name, next as they were before the most recent call
    pName,
    pNext,
    op2,      \* the call before the most recent one, and its argument,
    arg2,     \* return value and the list before it
    ret2,
    ppHead,
    ppNext

vars == <<head, name, next, out, op, arg, ret, pHead, pName, pNext,
          op2, arg2, ret2, ppHead, ppNext>>

----------------------------------------------------------------------------
(* Traversals.  Each loop of the code follows next until None; `fuel`      *)
(* bounds the number of iterations evaluated, so that a chain with a cycle *)
(* yields more nodes than the heap holds instead of no value at all.       *)

RECURSIVE Chain(_, _, _)
\* The nodes visited by `while current: ...; current = current.next`.
Chain(current, nx, fuel) ==
    IF current = None \/ fuel = 0
    THEN <<>>
    ELSE <<current>> \o Chain(nx[current], nx, fuel - 1)

\* The nodes of the list, head to tail.
Nodes(h, nx) == Chain(h, nx, Len(nx) + 1)

\* The name sequence of the list, head to tail.
NamesOf(h, nx, nm) ==
    LET c == Nodes(h, nx) IN [i \in 1..Len(c) |-> nm[c[i]]]

RECURSIVE LastNode(_, _, _)
\* add: `while current.next: current = current.next`
LastNode(current, nx, fuel) ==
    IF nx[current] = None \/ fuel = 0
    THEN current
    ELSE LastNode(nx[current], nx, fuel - 1)

----------------------------------------------------------------------------
(* add *)

\* Bug variant: the new node is linked in front of the list.
AddOpPrepend(h, nx, nm, x) ==
    LET new_node == Len(nm) + 1 IN
    [head |-> new_node, name |-> Append(nm, x), next |-> Append(nx, h)]

\* Bug variant: the tail's link is closed back onto the head.
AddOpCircular(h, nx, nm, x) ==
    LET new_node == Len(nm) + 1 IN
    IF h = None
    THEN [head |-> new_node, name |-> Append(nm, x), next |-> Append(nx, None)]
    ELSE [head |-> h, name |-> Append(nm, x),
          next |-> [Append(nx, h) EXCEPT ![LastNode(h, nx, Len(nx))] = new_node]]

\* Bug variant: a new node's next refers to the node itself.
AddOpSelfLoop(h, nx, nm, x) ==
    LET new_node == Len(nm) + 1 IN
    IF h = None
    THEN [head |-> new_node, name |-> Append(nm, x), next |-> Append(nx, new_node)]
    ELSE [head |-> h, name |-> Append(nm, x),
          next |-> [Append(nx, new_node) EXCEPT ![LastNode(h, nx, Len(nx))] = new_node]]

\* Bug variant: on a non-empty list the new node is created but never linked.
AddOpDropped(h, nx, nm, x) ==
    LET new_node == Len(nm) + 1 IN
    [head |-> IF h = None THEN new_node ELSE h,
     name |-> Append(nm, x), next |-> Append(nx, None)]

\* LinkedList.add: Node(name) gets the next identity, with next = None; it
\* becomes head of an empty list, else the last node's next.
AddOp(h, nx, nm, x) ==
    LET new_node == Len(nm) + 1 IN
    IF h = None
    THEN [head |-> new_node, name |-> Append(nm, x), next |-> Append(nx, None)]
    ELSE [head |-> h, name |-> Append(nm, x),
          next |-> [Append(nx, None) EXCEPT ![LastNode(h, nx, Len(nx))] = new_node]]

----------------------------------------------------------------------------
(* remove *)

RECURSIVE FindNotEqual(_, _, _, _, _, _)
\* Bug variant: the comparison is != instead of ==.
FindNotEqual(current, prev, nx, nm, x, fuel) ==
    IF current = None \/ fuel = 0
    THEN [found |-> FALSE, current |-> None, prev |-> prev]
    ELSE IF nm[current] # x
         THEN [found |-> TRUE, current |-> current, prev |-> prev]
         ELSE FindNotEqual(nx[current], current, nx, nm, x, fuel - 1)

RECURSIVE FindLast(_, _, _, _, _, _)
\* Bug variant: the loop keeps going after a match and keeps the last one.
FindLast(current, prev, nx, nm, x, fuel) ==
    IF current = None \/ fuel = 0
    THEN [found |-> FALSE, current |-> None, prev |-> prev]
    ELSE LET rest == FindLast(nx[current], current, nx, nm, x, fuel - 1) IN
         IF rest.found THEN rest
         ELSE IF nm[current] = x
              THEN [found |-> TRUE, current |-> current, prev |-> prev]
              ELSE rest

RECURSIVE Find(_, _, _, _, _, _)
\* remove's loop: the first node whose name equals x, and the node before it.
Find(current, prev, nx, nm, x, fuel) ==
    IF current = None \/ fuel = 0
    THEN [found |-> FALSE, current |-> None, prev |-> prev]
    ELSE IF nm[current] = x
         THEN [found |-> TRUE, current |-> current, prev |-> prev]
         ELSE Find(nx[current], current, nx, nm, x, fuel - 1)

\* Bug variant: the predecessor's link is cleared instead of redirected.
UnlinkTruncate(h, nx, f) ==
    IF f.prev # None
    THEN [head |-> h, next |-> [nx EXCEPT ![f.prev] = None]]
    ELSE [head |-> nx[f.current], next |-> nx]

\* Bug variant: a match at the head is not unlinked.
UnlinkNoHead(h, nx, f) ==
    IF f.prev # None
    THEN [head |-> h, next |-> [nx EXCEPT ![f.prev] = nx[f.current]]]
    ELSE [head |-> h, next |-> nx]

\* remove, on a match: `if prev: prev.next = current.next`
\*                     `else: self.head = current.next`
Unlink(h, nx, f) ==
    IF f.prev # None
    THEN [head |-> h, next |-> [nx EXCEPT ![f.prev] = nx[f.current]]]
    ELSE [head |-> nx[f.current], next |-> nx]

\* LinkedList.remove
RemoveOp(h, nx, nm, x) ==
    LET f == Find(h, None, nx, nm, x, Len(nx) + 1) IN
    IF f.found
    THEN LET u == Unlink(h, nx, f) IN
         [head |-> u.head, next |-> u.next, ret |-> "True"]
    ELSE [head |-> h, next |-> nx, ret |-> "False"]

----------------------------------------------------------------------------
(* display *)

\* Bug variant: the emptiness test looks at the truth value of the first name.
DisplayOpFalsy(h, nx, nm) ==
    IF h = None \/ nm[h] = ""
    THEN <<EmptyMsg>>
    ELSE NamesOf(h, nx, nm)

\* LinkedList.display: the lines printed.
DisplayOp(h, nx, nm) ==
    IF h = None
    THEN <<EmptyMsg>>
    ELSE NamesOf(h, nx, nm)

----------------------------------------------------------------------------
(* The calls *)

\* What every call records about itself and the state it started from.
Record(o, a, r) ==
    /\ op' = o /\ arg' = a /\ ret' = r
    /\ pHead' = head /\ pName' = name /\ pNext' = next
    /\ op2' = op /\ arg2' = arg /\ ret2' = ret
    /\ ppHead' = pHead /\ ppNext' = pNext

Init ==
    /\ head = None /\ name = <<>> /\ next = <<>>
    /\ out = <<>>
    /\ op = "init" /\ arg = "" /\ ret = "None"
    /\ pHead = None /\ pName = <<>> /\ pNext = <<>>
    /\ op2 = "init" /\ arg2 = "" /\ ret2 = "None"
    /\ ppHead = None /\ ppNext = <<>>

add(x) ==
    /\ Len(name) < MaxNodes
    /\ LET r == AddOp(head, next, name, x) IN
         /\ head' = r.head /\ name' = r.name /\ next' = r.next
    /\ out' = <<>>
    /\ Record("add", x, "None")

remove(x) ==
    /\ LET r == RemoveOp(head, next, name, x) IN
         /\ head' = r.head /\ next' = r.next
         /\ Record("remove", x, r.ret)
    /\ name' = name
    /\ out' = <<>>

\* Bug variant: the traversal advances self.head instead of a local.
displayConsuming ==
    /\ out' = DisplayOp(head, next, name)
    /\ head' = None
    /\ UNCHANGED <<name, next>>
    /\ Record("display", "", "None")

display ==
    /\ out' = DisplayOp(head, next, name)
    /\ UNCHANGED <<head, name, next>>
    /\ Record("display", "", "None")

Next ==
    \/ \E x \in Names : add(x)
    \/ \E x \in Names : remove(x)
    \/ display

Spec == Init /\ [][Next]_vars

----------------------------------------------------------------------------
(* Vocabulary of the properties *)

\* The list's name sequence now, before the last call, and before the one
\* before it.  Node names are never reassigned, so `name` serves the oldest.
Now  == NamesOf(head, next, name)
Pre  == NamesOf(pHead, pNext, pName)
Pre2 == NamesOf(ppHead, ppNext, name)

Elems(s) == {s[i] : i \in 1..Len(s)}

Count(x, s) == Cardinality({i \in 1..Len(s) : s[i] = x})

\* s without its first element equal to x (s itself when x is absent).
RemoveFirst(s, x) ==
    LET I == {i \in 1..Len(s) : s[i] = x} IN
    IF I = {} THEN s
    ELSE LET i == CHOOSE j \in I : \A k \in I : j <= k IN
         [j \in 1..(Len(s) - 1) |-> IF j < i THEN s[j] ELSE s[j + 1]]

RECURSIVE RemoveRets(_, _, _, _, _)
\* The return values of n consecutive remove(x) calls from list (h, nx).
RemoveRets(h, nx, nm, x, n) ==
    IF n = 0 THEN <<>>
    ELSE LET r == RemoveOp(h, nx, nm, x) IN
         <<r.ret>> \o RemoveRets(r.head, r.next, nm, x, n - 1)

\* The set of nodes of the list.
Live == Elems(Nodes(head, next))

\* The nodes created so far.
Created == 1..Len(name)

\* The last call but one removed the only element of a one-element list.
SoleRemoved ==
    /\ op2 = "remove" /\ ret2 = "True"
    /\ ppHead # None /\ ppNext[ppHead] = None

----------------------------------------------------------------------------
(* Properties *)

\* C1: add(name), for any name (the empty string and names already present
\* included), turns the name sequence s into s followed by name; and when
\* no node has been unlinked since the list was created, display prints the
\* names in exactly the order they were added.
C1_AddAppends ==
    /\ op = "add" => Now = Append(Pre, arg)
    /\ (op = "display" /\ Len(name) > 0 /\ Len(Now) = Len(name)) => out = name

C1_Witness ==
    /\ op = "add" /\ op2 = "remove" /\ ret2 = "True"
    /\ arg \in Elems(Pre) /\ Len(Now) >= 3

\* C2: remove(x) with x absent returns False and changes neither head nor
\* any node's next link nor the name sequence; on an empty list in particular.
C2_RemoveAbsentNoOp ==
    (op = "remove" /\ arg \notin Elems(Pre)) =>
        /\ ret = "False"
        /\ head = pHead /\ next = pNext /\ name = pName
        /\ Now = Pre
        /\ (pHead = None => head = None /\ Now = <<>>)

C2_Witness ==
    /\ op = "remove" /\ arg \notin Elems(Pre) /\ Len(Pre) >= 2

\* C3: remove(x) with x present exactly once returns True; afterwards the
\* name sequence is the old one with that element deleted: x is gone, the
\* length is smaller by one, the others keep their order.
C3_RemoveSingle ==
    (op = "remove" /\ Count(arg, Pre) = 1) =>
        /\ ret = "True"
        /\ Now = RemoveFirst(Pre, arg)
        /\ arg \notin Elems(Now)
        /\ Len(Now) = Len(Pre) - 1

C3_Witness ==
    /\ op = "remove" /\ Count(arg, Pre) = 1
    /\ Len(Pre) >= 3 /\ Pre[1] # arg /\ Pre[Len(Pre)] # arg

\* C4: remove(x) with x present several times deletes only the occurrence
\* nearest the head; and from any list with k occurrences of x, k consecutive
\* remove(x) calls return True and the next one returns False.
C4_RemoveFirstOnly ==
    /\ (op = "remove" /\ Count(arg, Pre) >= 2) =>
          /\ ret = "True"
          /\ Now = RemoveFirst(Pre, arg)
          /\ Count(arg, Now) = Count(arg, Pre) - 1
    /\ \A x \in Names :
          LET k == Count(x, Now) IN
          RemoveRets(head, next, name, x, k + 1) =
              [i \in 1..(k + 1) |-> IF i <= k THEN "True" ELSE "False"]

C4_Witness ==
    /\ op = "remove" /\ Count(arg, Pre) >= 2
    /\ \E i \in 1..Len(Pre) : Pre[i] = arg /\ i < Len(Pre) /\ Pre[i + 1] # arg

\* C5: removing the first node's name makes head the former second node, or
\* None when there was none; after the sole element is removed, display
\* prints the empty-state message and add makes its new node the head.
C5_RemoveHead ==
    /\ (op = "remove" /\ pHead # None /\ pName[pHead] = arg) =>
          /\ ret = "True"
          /\ head = pNext[pHead]
          /\ (pNext[pHead] = None => head = None /\ Now = <<>>)
    /\ (SoleRemoved /\ op = "display") => out = <<EmptyMsg>>
    /\ (SoleRemoved /\ op = "add") =>
          /\ head = Len(name) /\ next[head] = None
          /\ Now = <<arg>>

C5_Witness ==
    /\ SoleRemoved /\ op = "add" /\ head = Len(name) /\ head > 1

C5_WitnessSecond ==
    /\ op = "remove" /\ pHead # None /\ pName[pHead] = arg
    /\ pNext[pHead] # None /\ head = pNext[pHead]

\* C6: display changes neither head nor any node's name or next link.
C6_DisplayPure ==
    op = "display" => head = pHead /\ name = pName /\ next = pNext

C6_Witness ==
    /\ op = "display" /\ op2 = "remove" /\ ret2 = "True" /\ Len(Now) >= 2

C8_Acyclic ==
    LET c == Nodes(head, next) IN
    /\ Len(c) <= Len(name)
    /\ \A i, j \in 1..Len(c) : c[i] = c[j] => i = j

C8_Witness ==
    /\ op = "add" /\ op2 = "remove" /\ ret2 = "True"
    /\ Len(Now) >= 2 /\ Len(Now) < Len(name)

\* C9 as stated: over every node ever created, unlinked ones included, no
\* node has two predecessors and none is both head and a next target.
C9_NoSharingCreated ==
    \A n \in Created :
        /\ Cardinality({m \in Created : next[m] = n}) <= 1
        /\ ~(head = n /\ \E m \in Created : next[m] = n)

\* C9 amended: among the nodes of the list (those reached from head), no
\* node is the next of two nodes and the head is the next of none.
C9_NoSharingLive ==
    \A n \in Live :
        /\ Cardinality({m \in Live : next[m] = n}) <= 1
        /\ ~(head = n /\ \E m \in Live : next[m] = n)

C9_Witness ==
    /\ \E g \in Created \ Live : next[g] \in Live
    /\ Cardinality(Live) >= 2

\* C10: add(x) then remove(x) returns True.  If x was not in the sequence s
\* the sequence is s again; if it was, the earlier x is the one deleted: the
\* length and the number of each name are as in s, and the order is that of
\* s exactly when every element after the first x equals x.
C10_AddRemoveRoundTrip ==
    (op = "remove" /\ op2 = "add" /\ arg2 = arg) =>
        LET s == Pre2 IN
        /\ ret = "True"
        /\ arg \notin Elems(s) => Now = s
        /\ arg \in Elems(s) =>
              /\ Len(Now) = Len(s)
              /\ \A y \in Names : Count(y, Now) = Count(y, s)
              /\ Now = Append(RemoveFirst(s, arg), arg)
              /\ (Now = s) <=>
                    (\A i, j \in 1..Len(s) : (s[i] = arg /\ i < j) => s[j] = arg)

C10_Witness ==
    /\ op = "remove" /\ op2 = "add" /\ arg2 = arg
    /\ arg \notin Elems(Pre2) /\ Len(Pre2) >= 2 /\ Now = Pre2

C10_WitnessPresent ==
    /\ op = "remove" /\ op2 = "add" /\ arg2 = arg
    /\ arg \in Elems(Pre2) /\ Now # Pre2

====
